---- MODULE Spec2Model ----
(***************************************************************************)
(* Model of benchapps.py (XI-lab/hicbem): output path preparation          *)
(* (preparePath / prepareResDir), the exec<Alg> job builders and the       *)
(* aggregation of the execution statistics (aggexec).                      *)
(*                                                                         *)
(* Paths and names are sequences of tokens; every token that plays a role  *)
(* in suffix stripping or in prefix matching is a single character, so     *)
(* the token-wise prefix relation is the character-wise one.               *)
(***************************************************************************)
EXTENDS Integers, Sequences, FiniteSets, TLC

VARIABLES
    fs,        \* the results tree: path -> Absent, a directory or a file
    backups,   \* the backup archives made so far, oldest first
    clock,     \* the time stamp the next backup archive gets
    last,      \* the last operation, with the tree it started from
    logs,      \* aggexec's input: the algorithms with their resource logs
    agg,       \* aggexec's local state: position, measures, malgs, ialg
    reports,   \* the aggregated report files
    reports0,  \* the report files as the running aggexec call found them
    aggruns,   \* the aggexec calls so far: how many began, how many wrote
    call,      \* the running call of a job builder: arguments, position, locals
    jobs,      \* the jobs passed to execpool.execute, in order
    pool,      \* the execution pool: for each job its process and hook runs
    pybin      \* class PyBin: the probed interpreters, and the last bestof call

pathvars == <<fs, backups, clock, last>>

aggvars == <<logs, agg, reports, reports0, aggruns>>

buildvars == <<call, jobs, pool>>

vars == <<fs, backups, clock, last, logs, agg, reports, reports0, aggruns, call, jobs, pool,
         pybin>>

(***************************************************************************)
(* Bounds of the model.                                                    *)
(***************************************************************************)
MaxBackups == 2

MaxAlgs == 3

MaxRuns == 2

MaxIOErrors == 1

MaxWrites == 1

(***************************************************************************)
(* Generic helpers.                                                        *)
(***************************************************************************)
HasPrefix(s, p) == Len(p) <= Len(s) /\ SubSeq(s, 1, Len(p)) = p

SetMin(S) == CHOOSE x \in S : \A y \in S : x <= y

SetMax(S) == CHOOSE x \in S : \A y \in S : x >= y

(***************************************************************************)
(* benchutils: name separators and delPathSuffix.                          *)
(***************************************************************************)
SEPINST == "^"

SEPPATHID == "#"

SEPSHF == "%"

SEPPARS == "!"

\* os.path.split(path)[0]: the tokens before the last "/", <<>> when there is none
PathDir(path) ==
    LET slashes == {i \in 1..Len(path) : path[i] = "/"}
    IN  IF slashes = {} THEN <<>> ELSE SubSeq(path, 1, SetMax(slashes) - 1)

\* os.path.split(path)[1]: the tokens after the last "/"
PathName(path) ==
    LET slashes == {i \in 1..Len(path) : path[i] = "/"}
    IN  IF slashes = {} THEN path ELSE SubSeq(path, SetMax(slashes) + 1, Len(path))

\* The name cut at the first of the last occurrences of the instance, path id
\* and shuffle separators; a separator can not be the first symbol of a name.
StripSuffix(pname) ==
    LET lastpos(c) == {i \in 2..Len(pname) : pname[i] = c}
        poses == {SetMax(lastpos(c)) : c \in {c \in {SEPINST, SEPPATHID, SEPSHF} : lastpos(c) # {}}}
    IN  IF poses = {} THEN pname ELSE SubSeq(pname, 1, SetMin(poses) - 1)

delPathSuffix(path, nameonly) ==
    IF nameonly
    THEN StripSuffix(path)
    ELSE IF PathDir(path) = <<>>
         THEN StripSuffix(PathName(path))
         ELSE PathDir(path) \o <<"/">> \o StripSuffix(PathName(path))

(***************************************************************************)
(* The file system.                                                        *)
(***************************************************************************)
Absent == [kind |-> "absent", files |-> {}]

EmptyDir == [kind |-> "dir", files |-> {}]

RegFile == [kind |-> "file", files |-> {}]

Dir(files) == [kind |-> "dir", files |-> files]

exists(f, path) == path \in DOMAIN f /\ f[path] # Absent

\* No operation on the tree yet
NoOp == [op |-> "none", path |-> <<>>, fs0 |-> <<>>, nb0 |-> 0, err |-> "ok", again |-> FALSE]

\* benchutils.dirempty: the directory lists no entry
dirempty(f, path) == f[path].files = {}

\* The directory holding the entries of the model
ParentPath == <<"r">>

\* Name of the archive tobackup() makes for basepath at time stamp ts: it lies
\* in the backup directory beside basepath
ArchiveName(basepath, ts) ==
    PathDir(basepath) \o <<"/", "backup", "/">> \o PathName(basepath) \o <<"_", ts, ".tar.gz">>

\* benchutils.tobackup(basepath, expand=True, move=True): every entry whose path
\* starts with basepath is moved into one new archive
tobackup(f, bk, ts, basepath) ==
    LET moved == {q \in DOMAIN f : exists(f, q) /\ HasPrefix(q, basepath)}
    IN  [fs      |-> [q \in DOMAIN f |-> IF q \in moved THEN Absent ELSE f[q]],
         backups |-> Append(bk, [name  |-> ArchiveName(basepath, ts),
                                 items |-> [q \in moved |-> f[q]]]),
         clock   |-> ts + 1,
         err     |-> "ok"]

\* os.makedirs(path): the path and its missing ancestors
makedirs(f, path) ==
    [q \in DOMAIN f \cup {path} |->
        IF q = path \/ (q = PathDir(path) /\ ~exists(f, q)) THEN EmptyDir ELSE f[q]]

\* os.mkdir(path): OSError when the path exists or its parent does not
mkdirFails(f, path) ==
    exists(f, path) \/ (PathDir(path) \in DOMAIN f /\ ~exists(f, PathDir(path)))

\* Leaf-only backup: a slip that archives the task path instead of its base
preparePathLeafOnly(f, bk, ts, taskpath) ==
    IF ~exists(f, taskpath)
    THEN [fs |-> makedirs(f, taskpath), backups |-> bk, clock |-> ts, err |-> "ok"]
    ELSE IF ~dirempty(f, taskpath)
         THEN LET b == tobackup(f, bk, ts, taskpath)
              IN  [b EXCEPT !.fs = [b.fs EXCEPT ![taskpath] = EmptyDir]]
         ELSE [fs |-> f, backups |-> bk, clock |-> ts, err |-> "ok"]

\* Backup of every existing path: a slip that drops the emptiness test
preparePathAlways(f, bk, ts, taskpath) ==
    IF ~exists(f, taskpath)
    THEN [fs |-> makedirs(f, taskpath), backups |-> bk, clock |-> ts, err |-> "ok"]
    ELSE LET b == tobackup(f, bk, ts, delPathSuffix(taskpath, FALSE))
         IN  [b EXCEPT !.fs = [b.fs EXCEPT ![taskpath] = EmptyDir]]

\* Backup without recreation: a slip that forgets os.mkdir after the move
preparePathNoMkdir(f, bk, ts, taskpath) ==
    IF ~exists(f, taskpath)
    THEN [fs |-> makedirs(f, taskpath), backups |-> bk, clock |-> ts, err |-> "ok"]
    ELSE IF ~dirempty(f, taskpath)
         THEN tobackup(f, bk, ts, delPathSuffix(taskpath, FALSE))
         ELSE [fs |-> f, backups |-> bk, clock |-> ts, err |-> "ok"]

\* preparePath(taskpath) as a function of the tree, the archives and the time
preparePath(f, bk, ts, taskpath) ==
    IF ~exists(f, taskpath)
    THEN [fs |-> makedirs(f, taskpath), backups |-> bk, clock |-> ts, err |-> "ok"]
    ELSE IF f[taskpath].kind # "dir"
         THEN [fs |-> f, backups |-> bk, clock |-> ts, err |-> "OSError"]
         ELSE IF ~dirempty(f, taskpath)
              THEN LET b == tobackup(f, bk, ts, delPathSuffix(taskpath, FALSE))
                   IN  IF mkdirFails(b.fs, taskpath)
                       THEN [b EXCEPT !.err = "OSError"]
                       ELSE [b EXCEPT !.fs = [b.fs EXCEPT ![taskpath] = EmptyDir]]
              ELSE [fs |-> f, backups |-> bk, clock |-> ts, err |-> "ok"]

(***************************************************************************)
(* Python floats (IEEE 754 binary64) of the values 0 <= x < 2, exactly: a  *)
(* value is the sequence of the FLimbs limbs of its FBits bits, the first  *)
(* bit of weight 1 and bit i of weight 2^(1-i); every operation computes   *)
(* the exact result and rounds it to FMant significant bits, ties to even. *)
(***************************************************************************)
LimbBits == 16

FLimbs == 4

FBits == FLimbs * LimbBits

FMant == 53

Radix == 2^LimbBits

FZero == <<0, 0, 0, 0>>

\* The limb of bit i and the weight of the bit in its limb
LimbOf(i) == ((i - 1) \div LimbBits) + 1

WeightOf(i) == 2^(LimbBits - 1 - ((i - 1) % LimbBits))

Bit(x, i) == (x[LimbOf(i)] \div WeightOf(i)) % 2

\* Index of the leading one, FBits + 1 for zero
Msb(x) ==
    LET ones == {i \in 1..FBits : Bit(x, i) = 1}
    IN  IF ones = {} THEN FBits + 1 ELSE SetMin(ones)

RECURSIVE Carry(_, _, _)
\* The carry of x + y out of limb k
Carry(x, y, k) ==
    IF k > FLimbs THEN 0 ELSE (x[k] + y[k] + Carry(x, y, k + 1)) \div Radix

\* x + y, exact (below 2)
AddLimbs(x, y) ==
    << (x[1] + y[1] + Carry(x, y, 2)) % Radix, (x[2] + y[2] + Carry(x, y, 3)) % Radix,
       (x[3] + y[3] + Carry(x, y, 4)) % Radix, (x[4] + y[4]) % Radix >>

RECURSIVE Borrow(_, _, _)
\* The borrow of x - y out of limb k
Borrow(x, y, k) ==
    IF k > FLimbs THEN 0 ELSE IF x[k] - y[k] - Borrow(x, y, k + 1) < 0 THEN 1 ELSE 0

\* x - y, exact, for x >= y
SubLimbs(x, y) ==
    << (x[1] - y[1] - Borrow(x, y, 2) + Radix) % Radix,
       (x[2] - y[2] - Borrow(x, y, 3) + Radix) % Radix,
       (x[3] - y[3] - Borrow(x, y, 4) + Radix) % Radix,
       (x[4] - y[4] + Radix) % Radix >>

\* Limb k of x with the bits after bit lastb cleared
Masked(x, k, lastb) ==
    LET kept == lastb - (k - 1) * LimbBits
    IN  IF kept >= LimbBits THEN x[k]
        ELSE IF kept <= 0 THEN 0
        ELSE (x[k] \div 2^(LimbBits - kept)) * 2^(LimbBits - kept)

\* One unit of bit i
Unit(i) ==
    << IF LimbOf(i) = 1 THEN WeightOf(i) ELSE 0, IF LimbOf(i) = 2 THEN WeightOf(i) ELSE 0,
       IF LimbOf(i) = 3 THEN WeightOf(i) ELSE 0, IF LimbOf(i) = 4 THEN WeightOf(i) ELSE 0 >>

\* The exact value x (plus something below its last bit when sticky) rounded
\* to FMant significant bits, ties to even
FRound(x, sticky) ==
    LET lastb == Msb(x) + FMant - 1
    IN  IF lastb >= FBits THEN x
        ELSE LET guard == Bit(x, lastb + 1)
                 rest == sticky \/ \E i \in (lastb + 2)..FBits : Bit(x, i) = 1
                 trunc == << Masked(x, 1, lastb), Masked(x, 2, lastb),
                             Masked(x, 3, lastb), Masked(x, 4, lastb) >>
             IN  IF guard = 1 /\ (rest \/ Bit(x, lastb) = 1)
                 THEN AddLimbs(trunc, Unit(lastb))
                 ELSE trunc

RECURSIVE RatioRem(_, _, _)
\* The dividend of limb k of num / den: what the limbs before it leave
RatioRem(num, den, k) ==
    IF k = 1 THEN num * 2^(LimbBits - 1)
    ELSE (RatioRem(num, den, k - 1) % den) * Radix

\* The float of the decimal literal num / den (num < 2 * den)
FLiteral(num, den) ==
    FRound(<< RatioRem(num, den, 1) \div den, RatioRem(num, den, 2) \div den,
              RatioRem(num, den, 3) \div den, RatioRem(num, den, 4) \div den >>,
           RatioRem(num, den, FLimbs) % den # 0)

\* x + y
FAdd(x, y) == FRound(AddLimbs(x, y), FALSE)

\* x - y for x >= y
FSub(x, y) == FRound(SubLimbs(x, y), FALSE)

RECURSIVE DivRem(_, _, _)
\* The dividend of limb k of x / n
DivRem(x, n, k) ==
    IF k = 1 THEN x[1] ELSE (DivRem(x, n, k - 1) % n) * Radix + x[k]

\* x / n for an integer n > 0
FDivInt(x, n) ==
    FRound(<< DivRem(x, n, 1) \div n, DivRem(x, n, 2) \div n,
              DivRem(x, n, 3) \div n, DivRem(x, n, 4) \div n >>,
           DivRem(x, n, FLimbs) % n # 0)

\* x <= y
FLe(x, y) ==
    LET diff == {k \in 1..FLimbs : x[k] # y[k]}
    IN  diff = {} \/ x[SetMin(diff)] < y[SetMin(diff)]

(***************************************************************************)
(* str(float) of Python 2: '%.12g', for 0.0001 <= x < 1: the exact decimal *)
(* expansion rounded to 12 significant digits, ties to even, without the   *)
(* trailing zeros.                                                         *)
(***************************************************************************)
StrPrecision == 12

DigitChar == <<"0", "1", "2", "3", "4", "5", "6", "7", "8", "9">>

RECURSIVE MulTenLimb(_, _)
\* 10 * limb k of x plus the carry of the limbs after it
MulTenLimb(x, k) ==
    10 * x[k] + (IF k = FLimbs THEN 0 ELSE MulTenLimb(x, k + 1) \div Radix)

\* 10 * x for a fraction x: the integer part (a digit) and the fraction left
MulTen(x) ==
    [digit |-> MulTenLimb(x, 1) \div 2^(LimbBits - 1),
     frac  |-> << MulTenLimb(x, 1) % 2^(LimbBits - 1), MulTenLimb(x, 2) % Radix,
                  MulTenLimb(x, 3) % Radix, MulTenLimb(x, 4) % Radix >>]

RECURSIVE DecDigits(_, _, _)
\* The decimals of the fraction x up to the nsig-th significant one, with the
\* fraction left below them
DecDigits(x, nsig, acc) ==
    IF nsig = 0 THEN [digits |-> acc, frac |-> x]
    ELSE LET m == MulTen(x)
             significant == m.digit # 0 \/ \E j \in 1..Len(acc) : acc[j] # 0
         IN  DecDigits(m.frac, IF significant THEN nsig - 1 ELSE nsig, Append(acc, m.digit))

RECURSIVE DecInc(_, _)
\* The decimals plus one unit of the decimal i (a carry out of the first decimal
\* does not happen for x < 0.9999...)
DecInc(d, i) ==
    IF i = 0 THEN d
    ELSE IF d[i] < 9 THEN [d EXCEPT ![i] = @ + 1]
    ELSE DecInc([d EXCEPT ![i] = 0], i - 1)

RECURSIVE StripZeros(_)
StripZeros(d) ==
    IF d # <<>> /\ d[Len(d)] = 0 THEN StripZeros(SubSeq(d, 1, Len(d) - 1)) ELSE d

\* str(x)
FloatStr(x) ==
    LET e == DecDigits(x, StrPrecision, <<>>)
        half == Bit(e.frac, 2) = 1
        above == \E i \in 3..FBits : Bit(e.frac, i) = 1
        up == half /\ (above \/ e.digits[Len(e.digits)] % 2 = 1)
        d == StripZeros(IF up THEN DecInc(e.digits, Len(e.digits)) ELSE e.digits)
    IN  <<"0", ".">> \o SubSeq([i \in 1..Len(d) |-> DigitChar[d[i] + 1]], 1, Len(d))

(***************************************************************************)
(* The exec<Alg> job builders.  A Python value is a record of its type and *)
(* its value; a string is the sequence of its tokens.                      *)
(***************************************************************************)
PyNone == [type |-> "NoneType", val |-> 0]

PyBool(b) == [type |-> "bool", val |-> b]

PyInt(n) == [type |-> "int", val |-> n]

PyStr(s) == [type |-> "str", val |-> s]

PyObj(o) == [type |-> "object", val |-> o]

\* bool(v): None, zero and the empty string are false
Truthy(v) ==
    CASE v.type = "NoneType" -> FALSE
      [] v.type = "bool" -> v.val
      [] v.type = "int" -> v.val # 0
      [] v.type = "str" -> v.val # <<>>
      [] OTHER -> TRUE

\* isinstance(v, int): a bool is an int
IsInt(v) == v.type \in {"int", "bool"}

\* benchevals: the root of the results and the directory of the clusterings
RESDIR == <<"results", "/">>

CLSDIR == <<"clusters", "/">>

EXTLOG == ".log"

EXTELOG == ".elog"

\* The names funcToAppName gives for the exec<Alg> functions
Builders ==
    {"LouvainIg", "Scp", "Randcommuns", "Daoc", "DaocA", "Ganxis", "Oslom2", "Pscan",
     "CggcRg", "CggciRg", "Scd"}

\* The builders running a parameter sweep
Sweeps == {"Scp", "Pscan"}

\* The builders whose assert covers the seed
SeedChecked == {"LouvainIg", "Randcommuns", "Ganxis", "Oslom2", "CggcRg", "CggciRg", "Scd"}

\* The network files and directories on disk
NetFile == <<"nets", "/", "n", "^", "1", ".nse">>

NetDir == <<"nets", "/">>

NetMissing == <<"nets", "/", "x", ".nse">>

NetsOnDisk == {NetFile, NetDir}

\* os.path.splitext(name)[0]: the name without its extension; a name that is
\* only an extension keeps it
SplitExt(name) ==
    IF Len(name) >= 2 /\ name[Len(name)] \in {".nse", ".nsa"}
    THEN SubSeq(name, 1, Len(name) - 1)
    ELSE name

\* The first occurrences of the separator c in the name, not counting its
\* first symbol
FirstPos(name, c) == {i \in 2..Len(name) : name[i] = c}

\* Where the parts of the name start: the first occurrence of each separator
SepPoses(name) ==
    {SetMin(FirstPos(name, c)) :
        c \in {c \in {SEPPARS, SEPINST, SEPSHF, SEPPATHID} : FirstPos(name, c) # {}}}

\* The part of the name from start up to the next part
PartFrom(name, start, poses) ==
    SubSeq(name, start, SetMin({q \in poses \cup {Len(name) + 1} : q > start}) - 1)

\* The part that the separator c starts
NamePart(name, c, poses) ==
    IF FirstPos(name, c) = {}
    THEN <<>>
    ELSE PartFrom(name, SetMin(FirstPos(name, c)), poses)

\* benchutils.parseName(name, True): the base name, the algorithm parameters,
\* the instance id, the shuffle id and the path id
NameParts(name, poses) ==
    << IF poses = {} THEN name ELSE SubSeq(name, 1, SetMin(poses) - 1),
       NamePart(name, SEPPARS, poses), NamePart(name, SEPINST, poses),
       NamePart(name, SEPSHF, poses), NamePart(name, SEPPATHID, poses) >>

parseName(name) == NameParts(name, SepPoses(name))

\* taskdir of prepareResDir for odir: the base name and the instance id
TaskDir(nameparts, task) == nameparts[1] \o nameparts[3] \o <<"/">> \o task

\* taskpath of prepareResDir
TaskPath(appname, task, odir, pathid) ==
    RESDIR \o <<appname, "/">> \o CLSDIR
           \o (IF odir THEN TaskDir(parseName(task), task) ELSE task) \o pathid

\* The outcome of preparePath with the path prepared
Prepared(r, taskpath) ==
    [fs |-> r.fs, backups |-> r.backups, clock |-> r.clock, err |-> r.err,
     taskpath |-> taskpath]

\* prepareResDir(appname, task, odir, pathid): the prepared tree with the path
prepareResDir(f, bk, ts, appname, task, odir, pathid) ==
    Prepared(preparePath(f, bk, ts, TaskPath(appname, task, odir, pathid)),
             TaskPath(appname, task, odir, pathid))

\* The completion hook a builder attaches to its job (ondone=...)
Ondone(algname) ==
    CASE algname = "Ganxis" -> "tidy"
      [] algname = "Oslom2" -> "postexec"
      [] OTHER -> "none"

\* The job description handed to execpool.execute()
Job(algname, task, category, taskpath, stdout) ==
    [name |-> <<algname, task>>, category |-> category, taskpath |-> taskpath,
     stdout |-> stdout, stderr |-> taskpath \o <<EXTELOG>>, ondone |-> Ondone(algname)]

\* The assert on the arguments, without the seed (execScp, execPscan, daocGamma)
AssertArgs(c) ==
    /\ Truthy(c.execpool)
    /\ Truthy(c.netfile)
    /\ (c.asym.type = "NoneType" \/ c.asym.type = "bool")
    /\ c.timeout.val + 0 >= 0

\* The assert on the arguments with the seed (the other builders)
AssertArgsSeed(c) ==
    /\ AssertArgs(c)
    /\ (c.seed.type = "NoneType" \/ IsInt(c.seed))

\* What the statements before the output path is prepared raise, "ok" when
\* they pass: the assert, os.path.getsize(netfile) and the assert on the task
Prologue(c) ==
    IF ~(IF c.builder \in SeedChecked THEN AssertArgsSeed(c) ELSE AssertArgs(c))
    THEN "AssertionError"
    ELSE IF c.netfile.val \notin NetsOnDisk
         THEN "OSError"
         ELSE IF SplitExt(PathName(c.netfile.val)) = <<>>
              THEN "AssertionError"
              ELSE "ok"

\* execpool.execute(Job(...)) on the prepared path r, skipped when the
\* preparation raised
Execute(r, queue, algname, task, category, stdout) ==
    [fs |-> r.fs, backups |-> r.backups, clock |-> r.clock, err |-> r.err,
     jobs |-> IF r.err = "ok"
              THEN Append(queue, Job(algname, task, category, r.taskpath,
                                     IF stdout THEN r.taskpath \o <<EXTLOG>> ELSE <<"/dev/null">>))
              ELSE queue]

\* execpool.execute without prepareResDir: a slip that submits the job on a
\* path nobody prepared
ExecuteUnprepared(st, algname, task, category, c, stdout) ==
    Execute([fs |-> st.fs, backups |-> st.backups, clock |-> st.clock, err |-> "ok",
             taskpath |-> TaskPath(algname, task, c.odir, c.pathid)],
            st.jobs, algname, task, category, stdout)

\* prepareResDir and execpool.execute for one task name
PrepareAndExecute(st, algname, task, category, c, stdout) ==
    Execute(prepareResDir(st.fs, st.backups, st.clock, algname, task, c.odir, c.pathid),
            st.jobs, algname, task, category, stdout)

\* The parameter put after the suffixes: the base of the task path is then
\* that of the network
ParamTaskAfterSuffix(task, prmex) == task \o <<SEPPARS>> \o prmex

\* The task name with the parameter embedded before its suffixes
ParamTask(task, prmex) ==
    LET taskbasex == delPathSuffix(task, TRUE)
        tasksuf == SubSeq(task, Len(taskbasex) + 1, Len(task))
    IN  taskbasex \o <<SEPPARS>> \o prmex \o tasksuf

\* execScp: the clique sizes
kmin == 3

kmax == 8

\* execPscan: the number of steps
steps == 10

\* No call of a builder is running
NoCall ==
    [pc |-> "idle", builder |-> "", execpool |-> PyNone, netfile |-> PyNone,
     asym |-> PyNone, odir |-> FALSE, timeout |-> PyInt(0), pathid |-> <<>>,
     seed |-> PyNone, task |-> <<>>, k |-> 0, eps |-> FZero, epsMax |-> FZero,
     deps |-> FZero, ret |-> PyNone, err |-> "ok", fs0 |-> <<>>, nb0 |-> 0]

(***************************************************************************)
(* aggexec: the resource consumption logs.  A line is the sequence of its  *)
(* whitespace-separated words; a word is a number (a measure, in 1e-6 of   *)
(* its unit) or a text (a sequence of characters).                         *)
(***************************************************************************)
Num(v) == [k |-> "num", v |-> v, s |-> <<>>]

Txt(s) == [k |-> "txt", v |-> 0, s |-> s]

\* ln.lstrip() is empty or starts with '#'
IsSkipped(line) ==
    \/ line = <<>>
    \/ (line[1].k = "txt" /\ line[1].s # <<>> /\ line[1].s[1] = "#")

\* The words from the 6th on, as ln.split(None, 5) leaves them in one field
RECURSIVE JoinWords(_)
JoinWords(words) ==
    IF Len(words) = 1 THEN words[1].s
    ELSE words[1].s \o <<" ">> \o JoinWords(Tail(words))

\* ln.split(None, 5): at most 5 splits, so at most 6 fields
Split5(line) ==
    IF Len(line) <= 6 THEN line
    ELSE SubSeq(line, 1, 5) \o <<Txt(JoinWords(SubSeq(line, 6, Len(line))))>>

\* Unlimited split: a slip that drops the maxsplit argument
SplitAll(line) == line

\* The fields of a line, as aggexec takes them
Fields(line) == Split5(line)

(***************************************************************************)
(* benchutils.ItemsStatistic: the accumulator of one series.               *)
(***************************************************************************)
ItemsStatistic(name, min0, max0) ==
    [name |-> name, sum |-> 0, min |-> min0, max |-> max0, count |-> 0,
     avg |-> [num |-> 0, den |-> 0], fixed |-> FALSE]

StatAdd(st, val) ==
    [st EXCEPT !.sum = @ + val,
               !.min = IF val < @ THEN val ELSE @,
               !.max = IF val > @ THEN val ELSE @,
               !.count = @ + 1]

\* avg = sum / count, kept as the exact fraction
StatFix(st) ==
    [st EXCEPT !.fixed = TRUE, !.avg = [num |-> st.sum, den |-> st.count]]

(***************************************************************************)
(* aggexec: reading the logs.                                              *)
(***************************************************************************)
mnames == <<"exectime", "cputime", "rssmem">>

\* Position of net in a measure table (the dict, in insertion order), 0 if none
NetIndex(table, net) ==
    LET found == {i \in 1..Len(table) : table[i].net = net}
    IN  IF found = {} THEN 0 ELSE SetMin(found)

\* First sample counted twice: a slip that seeds the new accumulator with val
\* and adds val again
AddSampleTwice(table, net, ialg, alg, val) ==
    LET t1 == IF NetIndex(table, net) = 0
              THEN Append(table, [net |-> net, stats |-> <<>>]) ELSE table
        j == NetIndex(t1, net)
        netstats == t1[j].stats
    IN  IF Len(netstats) <= ialg
        THEN IF Len(netstats) # ialg
             THEN [ok |-> FALSE, table |-> t1]
             ELSE [ok |-> TRUE,
                   table |-> [t1 EXCEPT ![j].stats =
                       Append(netstats, StatAdd(StatAdd(ItemsStatistic(<<alg, net>>, val, val), val), val))]]
        ELSE [ok |-> TRUE,
              table |-> [t1 EXCEPT ![j].stats[Len(netstats)] = StatAdd(@, val)]]

\* Sample put at the algorithm's own index, padding the sequence: a slip that
\* replaces the synchronisation assertion with place holders
AddSamplePadded(table, net, ialg, alg, val) ==
    LET t1 == IF NetIndex(table, net) = 0
              THEN Append(table, [net |-> net, stats |-> <<>>]) ELSE table
        j == NetIndex(t1, net)
        netstats == t1[j].stats
        padded == netstats \o [i \in 1..(ialg + 1 - Len(netstats)) |-> ItemsStatistic(<<alg, net>>, val, val)]
    IN  [ok |-> TRUE,
         table |-> [t1 EXCEPT ![j].stats = [padded EXCEPT ![Len(padded)] = StatAdd(@, val)]]]

\* The body of the loop over the measures: one value into the table of a measure
AddSample(table, net, ialg, alg, val) ==
    LET t1 == IF NetIndex(table, net) = 0
              THEN Append(table, [net |-> net, stats |-> <<>>]) ELSE table
        j == NetIndex(t1, net)
        netstats == t1[j].stats
    IN  IF Len(netstats) <= ialg
        THEN IF Len(netstats) # ialg
             THEN [ok |-> FALSE, table |-> t1]
             ELSE [ok |-> TRUE,
                   table |-> [t1 EXCEPT ![j].stats =
                       Append(netstats, StatAdd(ItemsStatistic(<<alg, net>>, val, val), val))]]
        ELSE [ok |-> TRUE,
              table |-> [t1 EXCEPT ![j].stats[Len(netstats)] = StatAdd(@, val)]]

\* The values of a parsed line for the three measures: etime, ctime, rmem
LineValues(fields) == <<fields[1].v, fields[2].v, fields[5].v>>

\* The network of a parsed line: the task name without its suffixes
LineNet(fields) == delPathSuffix(fields[6].s, TRUE)

AggIdle ==
    [pc |-> "idle", k |-> 0, ln |-> 0, measures |-> <<>>, malgs |-> <<>>, ialg |-> 0,
     warnings |-> 0, imsr |-> 0, ts |-> 0, err |-> "none", ioerrs |-> {}]

\* The state at the entry of aggexec
AggStart ==
    [AggIdle EXCEPT !.pc = "open", !.k = 1, !.measures = <<<<>>, <<>>, <<>>>>]

RECURSIVE AddSamples(_, _, _, _, _, _)
\* for imsr, val in enumerate((etime, ctime, rmem)), from measure imsr on
AddSamples(measures, imsr, net, ialg, alg, vals) ==
    IF imsr > Len(measures) THEN [ok |-> TRUE, measures |-> measures]
    ELSE LET r == AddSample(measures[imsr], net, ialg, alg, vals[imsr])
             m1 == [measures EXCEPT ![imsr] = r.table]
         IN  IF r.ok THEN AddSamples(m1, imsr + 1, net, ialg, alg, vals)
             ELSE [ok |-> FALSE, measures |-> m1]

\* Malformed lines skipped: a slip that drops lines of a wrong field count
\* instead of failing
ProcessLineSkipBad(a, alg, line) ==
    IF IsSkipped(line) \/ Len(Fields(line)) # 6 THEN [a EXCEPT !.ln = @ + 1]
    ELSE LET r == AddSamples(a.measures, 1, LineNet(Fields(line)), a.ialg, alg,
                             LineValues(Fields(line)))
         IN  IF r.ok
             THEN [a EXCEPT !.ln = @ + 1, !.measures = r.measures]
             ELSE [a EXCEPT !.pc = "failed", !.measures = r.measures,
                            !.err = "AssertionError: not synced"]

\* One line of the log of algorithm alg
ProcessLine(a, alg, line) ==
    IF IsSkipped(line) THEN [a EXCEPT !.ln = @ + 1]
    ELSE IF Len(Fields(line)) # 6
         THEN [a EXCEPT !.pc = "failed", !.err = "AssertionError: invalid format"]
    ELSE IF LineNet(Fields(line)) = <<>>
         THEN [a EXCEPT !.pc = "failed", !.err = "AssertionError: network name"]
    ELSE IF \E i \in {1, 2, 5} : Fields(line)[i].k # "num"
         THEN [a EXCEPT !.pc = "failed", !.err = "ValueError"]
    ELSE LET r == AddSamples(a.measures, 1, LineNet(Fields(line)), a.ialg, alg,
                             LineValues(Fields(line)))
         IN  IF r.ok
             THEN [a EXCEPT !.ln = @ + 1, !.measures = r.measures]
             ELSE [a EXCEPT !.pc = "failed", !.measures = r.measures,
                            !.err = "AssertionError: not synced"]

\* Unopenable log counted as an algorithm: a slip that advances ialg on IOError
DoOpenCounting(a, L) ==
    IF ~L[a.k].openable
    THEN [a EXCEPT !.warnings = @ + 1, !.k = @ + 1, !.ialg = @ + 1]
    ELSE [a EXCEPT !.malgs = Append(@, L[a.k].name), !.ln = 1, !.pc = "line"]

\* open(algesfile): IOError -> warning, the algorithm is skipped
DoOpen(a, L) ==
    IF ~L[a.k].openable
    THEN [a EXCEPT !.warnings = @ + 1, !.k = @ + 1]
    ELSE [a EXCEPT !.malgs = Append(@, L[a.k].name), !.ln = 1, !.pc = "line"]

\* The next line of the open log, or its end (the else branch of the try)
DoLine(a, L) ==
    IF a.ln > Len(L[a.k].lines)
    THEN [a EXCEPT !.ialg = @ + 1, !.k = @ + 1, !.ln = 0, !.pc = "open"]
    ELSE ProcessLine(a, L[a.k].name, L[a.k].lines[a.ln])

DoCheckWriting(a, now) ==
    [a EXCEPT !.ts = now, !.imsr = 0, !.pc = "write"]

\* After the loop over the algorithms
DoCheck(a, now) ==
    IF a.malgs = <<>>
    THEN [a EXCEPT !.warnings = @ + 1, !.pc = "done"]
    ELSE [a EXCEPT !.ts = now, !.imsr = 0, !.pc = "write"]

(***************************************************************************)
(* aggexec: writing the reports.                                           *)
(***************************************************************************)
EXTAGGRES == ".res"

EXTAGGRESEXT == ".resx"

ReportFiles == {<<mnames[i], e>> : i \in 1..3, e \in {EXTAGGRES, EXTAGGRESEXT}}

NoFile == [exists |-> FALSE, lines |-> <<>>]

NoReports == [f \in ReportFiles |-> NoFile]

\* A line of a report file
RLine(t, net, names, vals, ts) == [t |-> t, net |-> net, names |-> names, vals |-> vals, ts |-> ts]

\* a / b rounded to the nearest integer, ties to even (a >= 0, b > 0)
RoundDiv(a, b) ==
    LET q == a \div b
        r == a % b
    IN  IF 2 * r > b \/ (2 * r = b /\ q % 2 = 1) THEN q + 1 ELSE q

\* '{:.3f}': the value num/den (in 1e-6) in 1e-3
Fmt3(num, den) == RoundDiv(num, den * 1000)

\* '{:.6f}': the value num/den (in 1e-6) in 1e-6
Fmt6(num, den) == RoundDiv(num, den)

\* if not stat.fixed: stat.fix()
Fixed(stat) == IF stat.fixed THEN stat ELSE StatFix(stat)

\* Sum for every measure: a slip that drops the memory case
ReportedValueSum(stat, imsr) == [num |-> stat.sum, den |-> 1]

\* val = stat.sum if imsr < len(mnames) - 1 else stat.avg   (imsr from 0)
ReportedValue(stat, imsr) ==
    IF imsr < Len(mnames) - 1 THEN [num |-> stat.sum, den |-> 1] ELSE Fixed(stat).avg

\* The row of a network in the compact report
CompactRow(entry, imsr) ==
    RLine("row", entry.net, <<>>,
          [i \in 1..Len(entry.stats) |->
              Fmt3(ReportedValue(entry.stats[i], imsr).num, ReportedValue(entry.stats[i], imsr).den)],
          0)

\* The lines of a network in the extended report
ExtendedRows(entry, imsr, malgs) ==
    <<RLine("net", entry.net, <<>>, <<>>, 0)>> \o
    [i \in 1..Len(entry.stats) |->
        LET st == Fixed(entry.stats[i])
            val == ReportedValue(entry.stats[i], imsr)
        IN  RLine("alg", entry.net, <<malgs[i]>>,
                  <<Fmt3(val.num, val.den), Fmt6(st.avg.num, st.avg.den),
                    Fmt6(st.min, 1), Fmt6(st.max, 1)>>, 0)]

RECURSIVE CompactBody(_, _)
CompactBody(table, imsr) ==
    IF table = <<>> THEN <<>>
    ELSE <<CompactRow(Head(table), imsr)>> \o CompactBody(Tail(table), imsr)

RECURSIVE ExtendedBody(_, _, _)
ExtendedBody(table, imsr, malgs) ==
    IF table = <<>> THEN <<>>
    ELSE ExtendedRows(Head(table), imsr, malgs) \o ExtendedBody(Tail(table), imsr, malgs)

\* open(file, 'w') and the writes: the former content is lost
OverwriteLines(file, lines) == [exists |-> TRUE, lines |-> lines]

\* open(file, 'a') and the writes: the file exists and grows at its end
AppendLines(file, lines) == [exists |-> TRUE, lines |-> file.lines \o lines]

\* The output of measure imsr with the shared header written by every run
WriteMeasureHeaderAlways(rep, a, imsr) ==
    LET resfile == <<mnames[imsr + 1], EXTAGGRES>>
        resxfile == <<mnames[imsr + 1], EXTAGGRESEXT>>
        table == a.measures[imsr + 1]
        stamp == <<RLine("stamp", <<>>, <<>>, <<>>, a.ts)>>
    IN  [rep EXCEPT
            ![resfile] = AppendLines(@, stamp \o <<RLine("header", <<>>, a.malgs, <<>>, 0)>>
                                        \o CompactBody(table, imsr)),
            ![resxfile] = AppendLines(@, <<RLine("xheader", <<>>, <<>>, <<>>, 0)>> \o stamp
                                         \o ExtendedBody(table, imsr, a.malgs))]

\* The report files after the output of measure imsr (from 0)
WriteMeasure(rep, a, imsr) ==
    LET resfile == <<mnames[imsr + 1], EXTAGGRES>>
        resxfile == <<mnames[imsr + 1], EXTAGGRESEXT>>
        table == a.measures[imsr + 1]
        header == IF rep[resxfile].lines = <<>>
                  THEN <<RLine("xheader", <<>>, <<>>, <<>>, 0)>> ELSE <<>>
        stamp == <<RLine("stamp", <<>>, <<>>, <<>>, a.ts)>>
    IN  [rep EXCEPT
            ![resfile] = AppendLines(@, stamp \o <<RLine("header", <<>>, a.malgs, <<>>, 0)>>
                                        \o CompactBody(table, imsr)),
            ![resxfile] = AppendLines(@, header \o stamp \o ExtendedBody(table, imsr, a.malgs))]

\* The measures after the output of measure imsr: its accumulators are fixed
FixMeasure(measures, imsr) ==
    [measures EXCEPT ![imsr + 1] =
        [j \in 1..Len(@) |-> [@[j] EXCEPT !.stats = [i \in 1..Len(@) |-> Fixed(@[i])]]]]

\* One turn of the loop over the measures
DoWrite(a) ==
    [a EXCEPT !.measures = FixMeasure(@, a.imsr),
              !.imsr = @ + 1,
              !.pc = IF a.imsr + 1 = Len(mnames) THEN "done" ELSE "write"]

\* The report files after an IOError in the output of measure imsr (from 0): at
\* the opening of the extended file, when the compact one is open already, or at
\* the first row, when the lines before the rows are written
WriteMeasureFails(rep, a, imsr, atopen) ==
    LET resfile == <<mnames[imsr + 1], EXTAGGRES>>
        resxfile == <<mnames[imsr + 1], EXTAGGRESEXT>>
        header == IF rep[resxfile].lines = <<>>
                  THEN <<RLine("xheader", <<>>, <<>>, <<>>, 0)>> ELSE <<>>
        stamp == <<RLine("stamp", <<>>, <<>>, <<>>, a.ts)>>
    IN  IF atopen
        THEN [rep EXCEPT ![resfile] = AppendLines(@, <<>>)]
        ELSE [rep EXCEPT
                ![resfile] = AppendLines(@, stamp \o <<RLine("header", <<>>, a.malgs, <<>>, 0)>>),
                ![resxfile] = AppendLines(@, header \o stamp)]

\* An IOError that ends the loop over the measures: a try around the loop
DoWriteAborts(a) ==
    [a EXCEPT !.ioerrs = @ \cup {a.imsr + 1}, !.imsr = @ + 1, !.pc = "done"]

\* The turn of the loop over the measures that ends in except IOError: the
\* error is printed and the loop goes on
DoWriteFails(a) ==
    [a EXCEPT !.ioerrs = @ \cup {a.imsr + 1},
              !.imsr = @ + 1,
              !.pc = IF a.imsr + 1 = Len(mnames) THEN "done" ELSE "write"]

\* aggexec(L) run to its end from state a, as a function of its inputs
RECURSIVE RunAggexec(_, _, _, _)
RunAggexec(a, rep, L, now) ==
    IF a.pc = "open" /\ a.k <= Len(L) THEN RunAggexec(DoOpen(a, L), rep, L, now)
    ELSE IF a.pc = "open" THEN RunAggexec(DoCheck(a, now), rep, L, now)
    ELSE IF a.pc = "line" THEN RunAggexec(DoLine(a, L), rep, L, now)
    ELSE IF a.pc = "write" THEN RunAggexec(DoWrite(a), WriteMeasure(rep, a, a.imsr), L, now)
    ELSE [agg |-> a, reports |-> rep]

(***************************************************************************)
(* class PyBin.  A string is the sequence of its characters, a path the    *)
(* sequence of its components; None is the empty sequence.                 *)
(***************************************************************************)
None == <<>>

PyPy3 == <<"p", "y", "p", "y", "3">>

PyPy == <<"p", "y", "p", "y">>

Python3 == <<"p", "y", "t", "h", "o", "n", "3">>

Python == <<"p", "y", "t", "h", "o", "n">>

Python27 == <<"p", "y", "t", "h", "o", "n", "2", ".", "7">>

\* The optional interpreters, in the order the class body probes them
Runtimes == <<"pypy3", "pypy", "python3">>

\* The command of an optional interpreter
Command(r) == CASE r = "pypy3" -> PyPy3 [] r = "pypy" -> PyPy [] r = "python3" -> Python3

\* What subprocess.call((command, '-h')) does on a system: the command exits
\* with 0 ("ok"), exits with another code ("fails"), or is not there, and
\* the call raises OSError ("absent")
Systems == [{"pypy3", "pypy", "python3"} -> {"ok", "fails", "absent"}]

\* sys.executable: the full path to the running interpreter
PyExecs ==
    {<<<<"u", "s", "r">>, <<"b", "i", "n">>, n>> : n \in {Python, Python27, Python3, PyPy, PyPy3}}
        \cup {<<<<"o", "p", "t">>, PyPy3, <<"b", "i", "n">>, n>> : n \in {Python, PyPy}}

\* str.find: the lowest index (from 0) at which sub occurs in s, or -1
Find(s, sub) ==
    LET hits == {i \in 0..(Len(s) - Len(sub)) : SubSeq(s, i + 1, i + Len(sub)) = sub}
    IN  IF hits = {} THEN -1 ELSE SetMin(hits)

\* os.path.split(path)[1]
Basename(path) == path[Len(path)]

\* The class attributes before the class body ran
NoAttrs == [pypy3 |-> None, pypy |-> None, python3 |-> None]

\* One probe of the class body, not raising: the attribute is set when the
\* command exits with 0
ProbeOne(attrs, sys, r) ==
    IF sys[r] = "ok" THEN [attrs EXCEPT ![r] = Command(r)] ELSE attrs

\* The class body: the three probes in one try; the OSError of a command that
\* is not there ends the try, and the probes after it are not made
Probe(sys) ==
    IF sys["pypy3"] = "absent" THEN NoAttrs
    ELSE IF sys["pypy"] = "absent" THEN ProbeOne(NoAttrs, sys, "pypy3")
    ELSE IF sys["python3"] = "absent"
         THEN ProbeOne(ProbeOne(NoAttrs, sys, "pypy3"), sys, "pypy")
    ELSE ProbeOne(ProbeOne(ProbeOne(NoAttrs, sys, "pypy3"), sys, "pypy"), sys, "python3")

\* PyBin.bestof(pypy, v3) with the class attributes attrs under the interpreter exec
bestof(attrs, exec, pypy, v3) ==
    LET pyname == Basename(exec)
    IN  IF pypy /\ v3 /\ attrs.pypy3 # None
        THEN IF Find(pyname, PyPy3) = -1 THEN <<attrs.pypy3>> ELSE exec
        ELSE IF pypy /\ attrs.pypy # None
        THEN IF Find(pyname, PyPy) \in {-1, Find(pyname, PyPy3)} THEN <<attrs.pypy>> ELSE exec
        ELSE IF v3 /\ attrs.python3 # None
        THEN IF Find(pyname, Python3) = -1 THEN <<attrs.python3>> ELSE exec
        ELSE IF Find(pyname, Python) \in {-1, Find(pyname, Python3)} THEN <<Python>> ELSE exec

\* The module is not imported: PyBin is not part of the run
NotImported ==
    [pc |-> "none", sys |-> <<>>, exec |-> <<>>, attrs |-> NoAttrs,
     pypy |-> FALSE, v3 |-> FALSE, ret |-> None]

(***************************************************************************)
(* Specification of the aggregation: aggexec calls, one after the other,   *)
(* over a list of algorithms, each with an unopenable log or a log of some *)
(* lines.                                                                  *)
(***************************************************************************)
AlgNames == <<"LouvainIg", "Scp", "Randcommuns", "Daoc", "Ganxis">>

TaskN1 == Txt(<<"n", "^", "1">>)

TaskN2 == Txt(<<"n", "#", "2">>)

TaskM == Txt(<<"m">>)

\* ExecTime CPU_time CPU_usr CPU_kern RSS_RAM_peak TaskName
LineN1 == <<Num(500000), Num(400000), Num(300000), Num(100000), Num(2086000), TaskN1>>

LineN2 == <<Num(700000), Num(650000), Num(600000), Num(50000), Num(3000000), TaskN2>>

LineN3 == <<Num(100000), Num(90000), Num(80000), Num(10000), Num(1000000), TaskN1>>

LineM == <<Num(1200000), Num(1100000), Num(1000000), Num(100000), Num(5500000), TaskM>>

LineComment == <<Txt(<<"#">>), Txt(<<"ExecTime(sec)">>)>>

LineBlank == <<>>

\* The kernel time is missing: five fields
LineShort == <<Num(500000), Num(400000), Num(300000), Num(2086000), TaskN1>>

\* A word follows the task name: seven words
LineLong == LineN1 \o <<Txt(<<"x">>)>>

Unopenable == [openable |-> FALSE, lines |-> <<>>]

Log(lines) == [openable |-> TRUE, lines |-> lines]

LogChoices ==
    { Unopenable,
      Log(<<LineComment, LineBlank>>),
      Log(<<LineComment, LineN1, LineM>>),
      Log(<<LineN1, LineN2, LineN3>>),
      Log(<<LineM>>),
      Log(<<LineN2, LineShort>>),
      Log(<<LineN2, LineLong>>) }

\* No call of aggexec yet
NoRuns == [calls |-> 0, wrote |-> 0, empty0 |-> TRUE, ioerrs |-> 0]

\* Report files of an earlier run
OldFile == [exists |-> TRUE, lines |-> <<RLine("xheader", <<>>, <<>>, <<>>, 0)>>]

OldReports == [f \in ReportFiles |-> OldFile]

AggInit ==
    /\ pybin = NotImported
    /\ \E n \in 0..MaxAlgs : \E c \in [1..n -> LogChoices] :
          logs = [i \in 1..n |-> [name |-> AlgNames[i], openable |-> c[i].openable,
                                  lines |-> c[i].lines]]
    /\ agg = AggStart
    /\ reports \in {NoReports, OldReports}
    /\ reports0 = reports
    /\ aggruns = [NoRuns EXCEPT !.calls = 1, !.empty0 = (reports = NoReports)]
    /\ fs = [p \in {ParentPath} |-> EmptyDir]
    /\ backups = <<>>
    /\ clock = 1
    /\ last = NoOp
    /\ call = NoCall
    /\ jobs = <<>>
    /\ pool = <<>>

AggOpen ==
    /\ agg.pc = "open"
    /\ agg.k <= Len(logs)
    /\ agg' = DoOpen(agg, logs)
    /\ UNCHANGED <<logs, reports, reports0, aggruns>>
    /\ UNCHANGED <<pathvars, buildvars, pybin>>

AggLine ==
    /\ agg.pc = "line"
    /\ agg' = DoLine(agg, logs)
    /\ UNCHANGED <<logs, reports, reports0, aggruns>>
    /\ UNCHANGED <<pathvars, buildvars, pybin>>

AggCheck ==
    /\ agg.pc = "open"
    /\ agg.k > Len(logs)
    /\ agg' = DoCheck(agg, clock)
    /\ aggruns' = IF agg.malgs = <<>> THEN aggruns ELSE [aggruns EXCEPT !.wrote = @ + 1]
    /\ UNCHANGED <<logs, reports, reports0>>
    /\ UNCHANGED <<pathvars, buildvars, pybin>>

AggWrite ==
    /\ agg.pc = "write"
    /\ reports' = WriteMeasure(reports, agg, agg.imsr)
    /\ agg' = DoWrite(agg)
    /\ UNCHANGED <<logs, reports0, aggruns>>
    /\ UNCHANGED <<pathvars, buildvars, pybin>>

\* The output of a measure fails with an IOError
AggWriteFails(atopen) ==
    /\ agg.pc = "write"
    /\ aggruns.ioerrs < MaxIOErrors
    /\ reports' = WriteMeasureFails(reports, agg, agg.imsr, atopen)
    /\ agg' = DoWriteFails(agg)
    /\ aggruns' = [aggruns EXCEPT !.ioerrs = @ + 1]
    /\ UNCHANGED <<logs, reports0>>
    /\ UNCHANGED <<pathvars, buildvars, pybin>>

\* aggexec is called again on the same algorithms, at a later time; a sequence
\* of calls is followed up to its first call with a failed output
AggCall ==
    /\ agg.pc \in {"done", "failed"}
    /\ aggruns.calls < MaxRuns
    /\ agg.ioerrs = {}
    /\ agg' = AggStart
    /\ reports0' = reports
    /\ clock' = clock + 1
    /\ aggruns' = [aggruns EXCEPT !.calls = @ + 1]
    /\ UNCHANGED <<logs, reports>>
    /\ UNCHANGED <<fs, backups, last>>
    /\ UNCHANGED <<buildvars, pybin>>

AggNext ==
    \/ AggOpen
    \/ AggLine
    \/ AggCheck
    \/ AggWrite
    \/ \E atopen \in BOOLEAN : AggWriteFails(atopen)
    \/ AggCall

AggSpec == AggInit /\ [][AggNext]_vars

(***************************************************************************)
(* Properties of aggexec.  The reference values are taken from the logs    *)
(* themselves: the samples of a network are the values on the data lines   *)
(* whose task name, without its suffixes, is the network.                  *)
(***************************************************************************)
DataLines(lines) == SelectSeq(lines, LAMBDA l : ~IsSkipped(l))

\* The values of measure im (1..3) that the lines hold for net, in file order
Samples(lines, net, im) ==
    LET col == <<1, 2, 5>>[im]
        hit == SelectSeq(lines, LAMBDA l : /\ ~IsSkipped(l)
                                           /\ Len(l) >= 6
                                           /\ StripSuffix(l[6].s) = net)
    IN  [i \in 1..Len(hit) |-> hit[i][col].v]

RECURSIVE SeqSum(_)
SeqSum(s) == IF s = <<>> THEN 0 ELSE Head(s) + SeqSum(Tail(s))

SeqRange(s) == {s[i] : i \in 1..Len(s)}

\* The logs opened so far, in the order of their opening
OpenedUpTo(L, k) == SelectSeq([i \in 1..Len(L) |-> i], LAMBDA i : i <= k /\ L[i].openable)

Opened ==
    OpenedUpTo(logs, IF agg.pc = "line" THEN agg.k ELSE agg.k - 1)

\* The lines read so far of the log at index i
LinesRead(i) ==
    IF agg.pc = "line" /\ i = agg.k
    THEN SubSeq(logs[i].lines, 1, agg.ln - 1)
    ELSE logs[i].lines

AggRunning == agg.pc \in {"open", "line", "write", "done"}

AggReporting == agg.pc \in {"write", "done"}

\* The accumulator holds exactly the samples smp (at least one)
HoldsSamples(stat, smp) ==
    /\ Len(smp) >= 1
    /\ stat.count = Len(smp)
    /\ stat.sum = SeqSum(smp)
    /\ stat.min = SetMin(SeqRange(smp))
    /\ stat.max = SetMax(SeqRange(smp))

\* C7: while aggexec runs and after it, in each of the three measure tables the
\* accumulator at position i of a network holds exactly the samples that the i-th
\* opened algorithm logged for the network, the measured algorithms are the opened
\* ones in their order, and no network holds a place holder without samples.
C7_AccumulatorsAlignedWithAlgorithms ==
    AggRunning =>
        /\ Len(agg.malgs) = Len(Opened)
        /\ \A i \in 1..Len(Opened) : agg.malgs[i] = logs[Opened[i]].name
        /\ \A im \in 1..3 : \A j \in 1..Len(agg.measures[im]) :
              LET e == agg.measures[im][j]
              IN  /\ Len(e.stats) >= 1
                  /\ Len(e.stats) <= Len(Opened)
                  /\ \A i \in 1..Len(e.stats) :
                        HoldsSamples(e.stats[i], Samples(LinesRead(Opened[i]), e.net, im))

\* Logs with the networks {n, m} and then {n}: n has two entries and m one
C7_Witness ==
    /\ agg.pc = "done"
    /\ Len(agg.malgs) = 2
    /\ \A im \in 1..3 :
          /\ \E j \in 1..Len(agg.measures[im]) :
                agg.measures[im][j].net = <<"n">> /\ Len(agg.measures[im][j].stats) = 2
          /\ \E j \in 1..Len(agg.measures[im]) :
                agg.measures[im][j].net = <<"m">> /\ Len(agg.measures[im][j].stats) = 1

\* Some data line of an opened log has a number of words other than six
SomeLineNotSix ==
    \E i \in 1..Len(logs) : logs[i].openable /\
        \E n \in 1..Len(logs[i].lines) :
            ~IsSkipped(logs[i].lines[n]) /\ Len(logs[i].lines[n]) # 6

\* Some data line of an opened log has fewer than six words
SomeLineShort ==
    \E i \in 1..Len(logs) : logs[i].openable /\
        \E n \in 1..Len(logs[i].lines) :
            ~IsSkipped(logs[i].lines[n]) /\ Len(logs[i].lines[n]) < 6

\* C8 as stated: a data line with fewer or more than six words in an opened log
\* keeps aggexec from reaching the output of the reports.
C8_AnyOtherFieldCountIsFatal ==
    SomeLineNotSix => ~AggReporting

\* C8, amended: a data line with fewer than six words in an opened log keeps
\* aggexec from reaching the output of the reports; the failed call leaves every
\* report file as it found it; and the format failure is raised on lines of fewer
\* than six words only (the words from the sixth on are one field).
C8_ShortLineIsFatal ==
    /\ SomeLineShort => ~AggReporting
    /\ agg.pc = "failed" => reports = reports0
    /\ agg.err = "AssertionError: invalid format" =>
          (agg.pc = "failed" /\ Len(logs[agg.k].lines[agg.ln]) < 6)

C8_Witness ==
    /\ agg.pc = "failed"
    /\ agg.err = "AssertionError: invalid format"
    /\ Len(agg.malgs) >= 2
    /\ reports = reports0
    /\ reports0 # NoReports

\* C9: every accumulator that is reported counts each line of its algorithm for its
\* network once: count = n >= 1, sum, min and max are those of the n values, and
\* once fixed avg = sum / n; at the end every accumulator is fixed, but those of
\* a measure whose output failed.
C9_AccumulatorStatistics ==
    AggReporting =>
        \A im \in 1..3 : \A j \in 1..Len(agg.measures[im]) :
            LET e == agg.measures[im][j]
            IN  \A i \in 1..Len(e.stats) :
                   LET smp == Samples(logs[Opened[i]].lines, e.net, im)
                       st == e.stats[i]
                   IN  /\ HoldsSamples(st, smp)
                       /\ ((agg.pc = "done" \/ im <= agg.imsr) /\ im \notin agg.ioerrs) => st.fixed
                       /\ st.fixed => (st.avg.den > 0 /\ st.avg.num * Len(smp) = SeqSum(smp) * st.avg.den)

C9_Witness ==
    /\ agg.pc = "done"
    /\ \E j \in 1..Len(agg.measures[3]) : \E i \in 1..Len(agg.measures[3][j].stats) :
          LET st == agg.measures[3][j].stats[i]
          IN  st.count = 3 /\ st.fixed /\ st.min < st.max /\ st.avg.num = 6086000

\* The algorithms whose log opens
Openable(L) == SelectSeq(L, LAMBDA l : l.openable)

UnopenableNames == {logs[i].name : i \in {i \in 1..Len(logs) : ~logs[i].openable}}

\* C10: the call ends as the call on the list without the unopenable algorithms
\* ends, with the same report files (of the measures whose output did not fail)
\* and the same measured algorithms; each unopenable algorithm costs one
\* warning, and no report line names one.
C10_UnopenableSkipped ==
    agg.pc \in {"done", "failed"} =>
        LET ref == RunAggexec(AggStart, reports0, Openable(logs), clock)
        IN  /\ \A im \in 1..3 \ agg.ioerrs :
                  /\ \A e \in {EXTAGGRES, EXTAGGRESEXT} :
                        reports[<<mnames[im], e>>] = ref.reports[<<mnames[im], e>>]
                  /\ agg.measures[im] = ref.agg.measures[im]
            /\ agg.pc = ref.agg.pc
            /\ agg.malgs = ref.agg.malgs
            /\ agg.pc = "done" =>
                  agg.warnings = ref.agg.warnings + Cardinality(UnopenableNames)
            /\ \A f \in ReportFiles : \A n \in 1..Len(reports[f].lines) :
                  SeqRange(reports[f].lines[n].names) \cap UnopenableNames = {}

\* An unopenable log between two opened ones, and the reports are written
C10_Witness ==
    /\ agg.pc = "done"
    /\ Len(logs) = 3
    /\ logs[1].openable /\ ~logs[2].openable /\ logs[3].openable
    /\ agg.malgs = <<logs[1].name, logs[3].name>>
    /\ \A f \in ReportFiles : reports[f] # reports0[f]
    /\ \E j \in 1..Len(agg.measures[1]) : Len(agg.measures[1][j].stats) = 2

\* No log of the list opens: the list is empty or every log is unopenable
NothingOpens == Openable(logs) = <<>>

\* C11 (as claimed): a call whose list is empty or holds no openable log leaves
\* every report file as it found it, and its only effect is one warning.
C11_OnlyEffectOneWarning ==
    (agg.pc = "done" /\ NothingOpens) =>
        /\ reports = reports0
        /\ agg.warnings = 1

\* C11 (amended): such a call never reaches the writing of the reports and never
\* fails, every report file stays as the call found it, no accumulator is
\* created, and the call ends with one warning for each unopenable log plus the
\* final one: a single warning only when the list is empty.
C11_NothingOpenedNoReport ==
    NothingOpens =>
        /\ reports = reports0
        /\ agg.pc \notin {"write", "failed"}
        /\ agg.malgs = <<>>
        /\ \A im \in 1..3 : agg.measures[im] = <<>>
        /\ agg.warnings <= Len(logs) + 1
        /\ agg.pc = "done" => agg.warnings = Len(logs) + 1

\* Two unopenable logs, report files of an earlier run left alone, 3 warnings
C11_Witness ==
    /\ agg.pc = "done"
    /\ Len(logs) = 2
    /\ NothingOpens
    /\ reports0 = OldReports
    /\ reports = reports0
    /\ agg.warnings = 3

\* The lines that the running call has added to a report file
Added(f) == SubSeq(reports[f].lines, Len(reports0[f].lines) + 1, Len(reports[f].lines))

\* The rows (one per network) that the running call has added to a compact report
AddedRows(im) == SelectSeq(Added(<<mnames[im], EXTAGGRES>>), LAMBDA l : l.t = "row")

\* C12: after a call that wrote the reports, the compact report of each measure
\* (whose output did not fail) has gained one row per network of the measure, with one cell per accumulator;
\* the cell is the sum of the algorithm's samples for execution time and CPU
\* time, and their average for the resident memory (to 3 decimals).
C12_CompactCellSumOrAverage ==
    (agg.pc = "done" /\ agg.malgs # <<>>) =>
        \A im \in 1..3 \ agg.ioerrs :
            /\ Len(AddedRows(im)) = Len(agg.measures[im])
            /\ \A j \in 1..Len(agg.measures[im]) :
                  LET e == agg.measures[im][j]
                      row == AddedRows(im)[j]
                  IN  /\ row.net = e.net
                      /\ Len(row.vals) = Len(e.stats)
                      /\ \A i \in 1..Len(e.stats) :
                            LET smp == Samples(logs[Opened[i]].lines, e.net, im)
                            IN  row.vals[i] = IF im < 3
                                              THEN RoundDiv(SeqSum(smp), 1000)
                                              ELSE RoundDiv(SeqSum(smp), Len(smp) * 1000)

\* Three samples of one network: 1.300 s of execution time in all, 2028.667 of
\* memory on average
C12_Witness ==
    /\ agg.pc = "done"
    /\ \E j \in 1..Len(AddedRows(1)) : \E i \in 1..Len(AddedRows(1)[j].vals) :
          /\ AddedRows(1)[j].vals[i] = 1300
          /\ AddedRows(3)[j].vals[i] = 2029
          /\ agg.measures[3][j].stats[i].count = 3

\* s is a prefix of t
IsPrefix(s, t) == Len(s) <= Len(t) /\ SubSeq(t, 1, Len(s)) = s

\* C13: during and after every aggexec call of a sequence of calls, each report
\* file that existed when the call began still exists, and the content it had
\* then is a prefix of its content now.
C13_ReportsAppendOnly ==
    \A f \in ReportFiles :
        /\ reports0[f].exists => reports[f].exists
        /\ IsPrefix(reports0[f].lines, reports[f].lines)

\* The second call of a sequence has added to the files that the first one wrote
C13_Witness ==
    /\ aggruns.calls = 2
    /\ aggruns.wrote = 2
    /\ agg.pc = "done"
    /\ \A f \in ReportFiles :
          /\ Len(reports0[f].lines) >= 3
          /\ Len(reports[f].lines) > Len(reports0[f].lines)

\* A log that opens and holds only blank or comment lines
ZeroResult(l) == l.openable /\ DataLines(l.lines) = <<>>

\* The algorithms that are not of zero results
Producing(L) == SelectSeq(L, LAMBDA l : ~ZeroResult(l))

\* C14: a call on a list with algorithms of zero results (no output failing) ends as the call on
\* the list without them ends: it completes or fails alike, with the same
\* measured algorithms (no report column for an algorithm of zero results), the
\* same accumulator sequences (no slot for it) and the same report files.
C14_ZeroResultAlgorithmSkipped ==
    (agg.pc \in {"done", "failed"} /\ agg.ioerrs = {}
                                  /\ \E i \in 1..Len(logs) : ZeroResult(logs[i])) =>
        LET ref == RunAggexec(AggStart, reports0, Producing(logs), clock)
        IN  /\ agg.pc = ref.agg.pc
            /\ agg.malgs = ref.agg.malgs
            /\ agg.measures = ref.agg.measures
            /\ reports = ref.reports

\* The positions of the lines of kind t in a report file
LinesOfKind(f, t) == {n \in 1..Len(reports[f].lines) : reports[f].lines[n].t = t}

\* C20: between the calls of a sequence that began with empty report files, in
\* which n >= 1 calls wrote the reports and no output failed, each extended report file holds the
\* shared header once, as its first line, and n timestamp lines, the first
\* right after the header, with the n distinct times of the runs in their
\* order; a file of no writing run does not exist.
C20_HeaderOnceThenOneBlockPerRun ==
    (aggruns.empty0 /\ agg.pc # "write" /\ aggruns.ioerrs = 0) =>
        \A im \in 1..3 :
            LET f == <<mnames[im], EXTAGGRESEXT>>
                stamps == LinesOfKind(f, "stamp")
            IN  IF aggruns.wrote = 0
                THEN reports[f] = NoFile
                ELSE /\ LinesOfKind(f, "xheader") = {1}
                     /\ 2 \in stamps
                     /\ Cardinality(stamps) = aggruns.wrote
                     /\ \A n1, n2 \in stamps :
                           n1 < n2 => reports[f].lines[n1].ts < reports[f].lines[n2].ts

\* Two runs have written reports into files that were empty at first
C20_Witness ==
    /\ aggruns.empty0
    /\ aggruns.wrote = 2
    /\ agg.pc = "done"
    /\ \A im \in 1..3 :
          /\ Cardinality(LinesOfKind(<<mnames[im], EXTAGGRESEXT>>, "stamp")) = 2
          /\ Cardinality(LinesOfKind(<<mnames[im], EXTAGGRESEXT>>, "alg")) >= 2

\* The position of the algorithm alg among the measured ones
AlgIndex(alg) == CHOOSE i \in 1..Len(agg.malgs) : agg.malgs[i] = alg

\* The lines of the algorithms that the running call has added to the extended
\* report of measure im
AddedAlgLines(im) == SelectSeq(Added(<<mnames[im], EXTAGGRESEXT>>), LAMBDA l : l.t = "alg")

\* C21: after a call that wrote the reports, every algorithm line it added to
\* the extended report of a measure (whose output did not fail) shows, for the samples of the algorithm on
\* the network of the line: total = their sum (to 3 decimals), per_item = their
\* average, and their minimum and maximum (to 6 decimals), for all three
\* measures.
C21_ExtendedLineTotalAvgMinMax ==
    (agg.pc = "done" /\ agg.malgs # <<>>) =>
        \A im \in 1..3 \ agg.ioerrs : \A n \in 1..Len(AddedAlgLines(im)) :
            LET l == AddedAlgLines(im)[n]
                smp == Samples(logs[Opened[AlgIndex(l.names[1])]].lines, l.net, im)
            IN  /\ l.vals[1] = RoundDiv(SeqSum(smp), 1000)
                /\ l.vals[2] = RoundDiv(SeqSum(smp), Len(smp))
                /\ l.vals[3] = SetMin(SeqRange(smp))
                /\ l.vals[4] = SetMax(SeqRange(smp))

\* The report files of measure im
MeasureFiles(im) == {<<mnames[im], EXTAGGRES>>, <<mnames[im], EXTAGGRESEXT>>}

\* C22: a call in which the output of a measure fails with an IOError goes on
\* to its end, never failing as a whole, and at its end the two report files
\* of every measure whose output did not fail are as the call without any
\* failure leaves them: fully written, whichever measures failed.
C22_WriteFailureConfinedToMeasure ==
    /\ agg.ioerrs # {} => agg.pc \in {"write", "done"}
    /\ (agg.pc = "done" /\ agg.ioerrs # {}) =>
          LET ref == RunAggexec(AggStart, reports0, logs, clock).reports
          IN  \A im \in 1..3 \ agg.ioerrs : \A f \in MeasureFiles(im) :
                  /\ reports[f] = ref[f]
                  /\ Len(reports[f].lines) > Len(reports0[f].lines)

\* The output of the second measure failed, those of the first and of the third
\* were written with their rows
C22_Witness ==
    /\ agg.pc = "done"
    /\ agg.ioerrs = {2}
    /\ \A f \in MeasureFiles(2) : Len(Added(f)) <= 2
    /\ Len(AddedRows(1)) >= 1
    /\ Len(AddedRows(3)) >= 1
    /\ Len(AddedAlgLines(3)) >= 1

(***************************************************************************)
(* Specification of the path preparation: calls of preparePath on sibling  *)
(* task paths, interleaved with jobs writing results into the prepared     *)
(* directories.                                                            *)
(***************************************************************************)
Leaf(name) == ParentPath \o <<"/">> \o name

\* Task directories: an instance of the network n, the same network under a
\* path id, and the network m under a path id
TaskPaths ==
    { Leaf(<<"n", "^", "1">>), Leaf(<<"n", "#", "2">>), Leaf(<<"m", "#", "1">>) }

\* The log written beside a task directory
LogPaths == { Leaf(<<"n", "^", "1", ".log">>) }

PathSet == {ParentPath} \cup TaskPaths \cup LogPaths

ResultFiles == {"a.cnl"}

PathInit ==
    /\ pybin = NotImported
    /\ fs \in { f \in [PathSet -> {Absent, EmptyDir, RegFile, Dir({"a.cnl"})}] :
                  /\ \A p \in TaskPaths : f[p].kind # "file"
                  /\ \A p \in LogPaths : f[p].kind \in {"absent", "file"}
                  /\ f[ParentPath] \in {Absent, EmptyDir}
                  /\ (\E p \in TaskPaths \cup LogPaths : exists(f, p)) => exists(f, ParentPath) }
    /\ backups = <<>>
    /\ clock = 0
    /\ last = NoOp
    /\ logs = <<>>
    /\ agg = AggIdle
    /\ reports = NoReports
    /\ reports0 = NoReports
    /\ aggruns = NoRuns
    /\ call = NoCall
    /\ jobs = <<>>
    /\ pool = <<>>

PreparePathCall(p) ==
    LET r == preparePath(fs, backups, clock, p)
    IN  /\ Len(r.backups) <= MaxBackups
        /\ fs' = r.fs
        /\ backups' = r.backups
        /\ clock' = r.clock
        /\ last' = [op |-> "preparePath", path |-> p, fs0 |-> fs, nb0 |-> Len(backups),
                    err |-> r.err,
                    again |-> (last.op = "preparePath" /\ last.path = p /\ last.err = "ok")]
        /\ UNCHANGED <<aggvars, buildvars, pybin>>

\* A job writes a result file into its existing task directory
WriteResult(p, x) ==
    /\ fs[p].kind = "dir"
    /\ x \notin fs[p].files
    /\ fs' = [fs EXCEPT ![p] = Dir(fs[p].files \cup {x})]
    /\ last' = [NoOp EXCEPT !.op = "write", !.path = p]
    /\ UNCHANGED <<backups, clock>>
    /\ UNCHANGED <<aggvars, buildvars, pybin>>

PathNext ==
    \/ \E p \in TaskPaths : PreparePathCall(p)
    \/ \E p \in TaskPaths, x \in ResultFiles : WriteResult(p, x)

PathSpec == PathInit /\ [][PathNext]_vars

(***************************************************************************)
(* Properties of preparePath.                                              *)
(***************************************************************************)
LastPrepared == last.op = "preparePath"

LastArchive == backups[Len(backups)]

\* C1: whatever the state of the task path was (absent, an empty directory, a
\* directory with content), preparePath completes and the path is an empty
\* directory afterwards.
C1_PreparedPathIsEmptyDir ==
    LastPrepared => (last.err = "ok" /\ fs[last.path] = EmptyDir)

C1_Witness ==
    /\ LastPrepared
    /\ last.fs0[last.path].files # {}
    /\ fs[last.path] = EmptyDir

\* C2: preparePath on a directory with content moves every entry that was under
\* the base of the path (the path without its instance / path id suffix) into one
\* new archive, whose name is no live path; nothing of it stays in the tree, the
\* archive holds it unchanged, and the entries outside of the base are untouched.
C2_BaseSubtreeMovedToBackup ==
    (LastPrepared /\ last.fs0[last.path].files # {}) =>
        LET base == delPathSuffix(last.path, FALSE)
            under == {q \in DOMAIN fs : exists(last.fs0, q) /\ HasPrefix(q, base)}
        IN  /\ Len(backups) = last.nb0 + 1
            /\ LastArchive.name # last.path
            /\ LastArchive.name \notin DOMAIN fs
            /\ DOMAIN LastArchive.items = under
            /\ \A q \in under :
                   /\ LastArchive.items[q] = last.fs0[q]
                   /\ fs[q] = IF q = last.path THEN EmptyDir ELSE Absent
            /\ \A q \in DOMAIN fs \ under : q # last.path => fs[q] = last.fs0[q]

C2_Witness ==
    /\ LastPrepared
    /\ last.fs0[last.path].files # {}
    /\ \E q \in DOMAIN LastArchive.items :
           q # last.path /\ LastArchive.items[q].files # {} /\ fs[q] = Absent

\* C3: preparePath on an existing empty directory changes nothing and makes no
\* archive; so a second call right after a first one (no write in between) leaves
\* the tree and the number of archives as the first call left them.
C3_PreparePathIdempotent ==
    /\ (LastPrepared /\ last.fs0[last.path] = EmptyDir) =>
           (fs = last.fs0 /\ Len(backups) = last.nb0)
    /\ (LastPrepared /\ last.again) =>
           (fs = last.fs0 /\ Len(backups) = last.nb0 /\ last.err = "ok")

C3_Witness ==
    /\ LastPrepared
    /\ last.again
    /\ Len(backups) > 0
    /\ LastArchive.name = ArchiveName(delPathSuffix(last.path, FALSE), clock - 1)

\* The path is a directory with content in the tree f
Stale(f, p) == exists(f, p) /\ ~dirempty(f, p)

\* This step is a call of preparePath on a sibling (another leaf of the same
\* base) of the leaf that the call right before it prepared
SiblingCallAfterCall ==
    /\ LastPrepared
    /\ last'.op = "preparePath"
    /\ last'.path # last.path
    /\ delPathSuffix(last'.path, FALSE) = delPathSuffix(last.path, FALSE)

\* C16: two calls of preparePath in a row on the two sibling leaves of a base,
\* where a leaf held stale results before the first call, make exactly one
\* archive between them, at the first leaf entered that is not empty; when that
\* is the first leaf, the call on the sibling makes no archive and changes
\* nothing but the sibling, which it creates as an empty directory.
C16_OneBackupForSiblings ==
    [][(SiblingCallAfterCall /\ (Stale(last.fs0, last.path) \/ Stale(last.fs0, last'.path))) =>
          /\ last.err = "ok" /\ last'.err = "ok"
          /\ Len(backups') = last.nb0 + 1
          /\ Len(backups) = (IF Stale(last.fs0, last.path) THEN last.nb0 + 1 ELSE last.nb0)
          /\ fs'[last'.path] = EmptyDir
          /\ Stale(last.fs0, last.path) =>
                /\ \A q \in DOMAIN fs : exists(fs, q) => fs'[q] = fs[q]
                /\ ~exists(fs, last'.path)]_vars

\* Both siblings held stale results; the call on the first archived both and the
\* call on the second only created its directory
C16_Witness ==
    /\ LastPrepared
    /\ last.path = Leaf(<<"n", "#", "2">>)
    /\ last.nb0 = 1
    /\ Len(backups) = 1
    /\ last.fs0[Leaf(<<"n", "^", "1">>)] = EmptyDir
    /\ last.fs0[last.path] = Absent
    /\ fs[last.path] = EmptyDir
    /\ {Leaf(<<"n", "^", "1">>), Leaf(<<"n", "#", "2">>)} \subseteq DOMAIN backups[1].items
    /\ \A q \in {Leaf(<<"n", "^", "1">>), Leaf(<<"n", "#", "2">>)} : backups[1].items[q].files # {}

(***************************************************************************)
(* Specification of the job builders: one call of a builder on a results   *)
(* tree that is empty or holds the results of a former run.  The sweeps    *)
(* take one step per iteration of their loop, and the jobs submitted write *)
(* into their directories meanwhile.                                       *)
(***************************************************************************)
Execpools == {PyNone, PyObj("pool")}

Netfiles == {PyNone, PyStr(NetFile), PyStr(NetDir), PyStr(NetMissing)}

Asyms == {PyNone, PyBool(TRUE), PyStr(<<"yes">>)}

Timeouts == {PyInt(-1), PyInt(0)}

Pathids == {<<>>, <<SEPPATHID, "1">>}

Seeds == {PyNone, PyInt(7), PyStr(<<"abc">>)}

\* The task a former run of the builder on the network prepared first
StaleTask(b) ==
    CASE b = "Scp" -> ParamTask(<<"n", SEPINST, "1">>, <<"k", "3">>)
      [] b = "Pscan" -> ParamTask(<<"n", SEPINST, "1">>, <<"e", "0", ".", "0", "5">>)
      [] OTHER -> <<"n", SEPINST, "1">>

StalePaths == {TaskPath(b, StaleTask(b), FALSE, <<>>) : b \in Builders}

\* The task a former run of the sweep on the network prepared third
LaterTask(b) ==
    IF b = "Scp"
    THEN ParamTask(<<"n", SEPINST, "1">>, <<"k", "5">>)
    ELSE ParamTask(<<"n", SEPINST, "1">>, <<"e", "0", ".", "2", "2">>)

LaterPaths == {TaskPath(b, LaterTask(b), FALSE, <<>>) : b \in Sweeps}

\* The results trees a call may find: none, the results of the first task of
\* every builder, the results of a later sweep point only
StaleTrees ==
    {[p \in {} |-> Absent],
     [p \in StalePaths |-> Dir({"a.cnl"})],
     [p \in LaterPaths |-> Dir({"a.cnl"})]}

BuildInit ==
    /\ pybin = NotImported
    /\ fs \in StaleTrees
    /\ backups = <<>>
    /\ clock = 0
    /\ last = NoOp
    /\ call = NoCall
    /\ jobs = <<>>
    /\ pool = <<>>
    /\ logs = <<>>
    /\ agg = AggIdle
    /\ reports = NoReports
    /\ reports0 = NoReports
    /\ aggruns = NoRuns

\* The tree, the archives and the jobs as a builder finds them
Disk == [fs |-> fs, backups |-> backups, clock |-> clock, jobs |-> jobs]

\* The end of a step of a builder: the tree, the archives and the jobs as r
\* has them, the call going on as next unless the preparation raised
Commit(r, next) ==
    /\ fs' = r.fs
    /\ backups' = r.backups
    /\ clock' = r.clock
    /\ jobs' = r.jobs
    /\ pool' = pool
    /\ call' = IF r.err = "ok"
               THEN next
               ELSE [next EXCEPT !.pc = "failed", !.err = r.err, !.ret = PyNone]
    /\ UNCHANGED last
    /\ UNCHANGED <<aggvars, pybin>>

\* The call c fails with err before it touches anything
Raise(c, err) ==
    /\ call' = [c EXCEPT !.pc = "failed", !.err = err]
    /\ UNCHANGED <<fs, backups, clock, last, jobs, pool>>
    /\ UNCHANGED <<aggvars, pybin>>

\* The body of exec<c.builder> after its prologue: a single-job builder runs
\* to its end, a sweep up to its loop
Body(c, task) ==
    IF c.builder \in Sweeps
    THEN /\ call' = [c EXCEPT !.pc = "sweep", !.task = task, !.k = kmin,
                              !.eps = FLiteral(5, 100),
                              !.epsMax = FLiteral(9, 10),
                              !.deps = FDivInt(FSub(FLiteral(9, 10), FLiteral(5, 100)), steps)]
         /\ UNCHANGED <<fs, backups, clock, last, jobs, pool>>
         /\ UNCHANGED <<aggvars, pybin>>
    ELSE Commit(PrepareAndExecute(Disk, c.builder, task, <<c.builder>>, c, TRUE),
                [c EXCEPT !.pc = "done", !.task = task, !.ret = PyInt(1)])

\* exec<c.builder> from its first statement
Enter(c) ==
    IF Prologue(c) # "ok"
    THEN Raise(c, Prologue(c))
    ELSE Body(c, SplitExt(PathName(c.netfile.val)))

\* A call of exec<b>
BuilderCall(b, execpool, netfile, asym, odir, timeout, pathid, seed) ==
    /\ call.pc = "idle"
    /\ Enter([NoCall EXCEPT !.builder = b, !.execpool = execpool, !.netfile = netfile,
                            !.asym = asym, !.odir = odir, !.timeout = timeout,
                            !.pathid = pathid, !.seed = seed,
                            !.fs0 = fs, !.nb0 = Len(backups)])

\* One iteration of a sweep for the parameter prmex, then the statement next
SweepIteration(prmex, stdout, next) ==
    Commit(PrepareAndExecute(Disk, call.builder, ParamTask(call.task, prmex),
                             <<call.builder, "_">> \o prmex, call, stdout),
           next)

\* execScp: for k in range(kmin, kmax + 1)
ScpStep ==
    /\ call.pc = "sweep"
    /\ call.builder = "Scp"
    /\ call.k <= kmax
    /\ SweepIteration(<<"k", DigitChar[call.k + 1]>>, TRUE, [call EXCEPT !.k = @ + 1])

\* execScp: return kmax + 1 - kmin
ScpReturn ==
    /\ call.pc = "sweep"
    /\ call.builder = "Scp"
    /\ call.k > kmax
    /\ call' = [call EXCEPT !.pc = "done", !.ret = PyInt(kmax + 1 - kmin)]
    /\ UNCHANGED <<fs, backups, clock, last, jobs, pool>>
    /\ UNCHANGED <<aggvars, pybin>>

\* execPscan: while eps <= epsMax, with eps += deps in the end
PscanStep ==
    /\ call.pc = "sweep"
    /\ call.builder = "Pscan"
    /\ FLe(call.eps, call.epsMax)
    /\ SweepIteration(<<"e">> \o FloatStr(call.eps), FALSE,
                      [call EXCEPT !.eps = FAdd(@, call.deps)])

\* execPscan: return steps
PscanReturn ==
    /\ call.pc = "sweep"
    /\ call.builder = "Pscan"
    /\ ~FLe(call.eps, call.epsMax)
    /\ call' = [call EXCEPT !.pc = "done", !.ret = PyInt(steps)]
    /\ UNCHANGED <<fs, backups, clock, last, jobs, pool>>
    /\ UNCHANGED <<aggvars, pybin>>

\* The directories into which a job has written
Written == {d \in {jobs[i].taskpath : i \in 1..Len(jobs)} : ~dirempty(fs, d)}

\* A submitted job, run by the pool meanwhile, writes its clusters into its
\* output directory
JobWrite(i) ==
    /\ Cardinality(Written) < MaxWrites
    /\ exists(fs, jobs[i].taskpath)
    /\ dirempty(fs, jobs[i].taskpath)
    /\ fs' = [fs EXCEPT ![jobs[i].taskpath] = Dir({"j.cnl"})]
    /\ UNCHANGED <<backups, clock, last, call, jobs, pool>>
    /\ UNCHANGED <<aggvars, pybin>>

BuildNext ==
    \/ \E i \in 1..Len(jobs) : JobWrite(i)
    \/ \E b \in Builders, execpool \in Execpools, netfile \in Netfiles, asym \in Asyms,
          odir \in BOOLEAN, timeout \in Timeouts, pathid \in Pathids, seed \in Seeds :
          BuilderCall(b, execpool, netfile, asym, odir, timeout, pathid, seed)
    \/ ScpStep
    \/ ScpReturn
    \/ PscanStep
    \/ PscanReturn

BuildSpec == BuildInit /\ [][BuildNext]_vars

(***************************************************************************)
(* Properties of the builders.                                             *)
(***************************************************************************)
CallDone == call.pc = "done"

\* The directories of the jobs submitted
JobDirs == {jobs[i].taskpath : i \in 1..Len(jobs)}

\* C4: whenever a builder returns, the integer it returns is the number of jobs
\* the call passed to execpool.execute: 1 for the single-job builders, the
\* number of sweep points iterated for execScp and execPscan.
C4_ReturnIsJobsSubmitted ==
    CallDone => (call.ret.type = "int" /\ call.ret.val = Len(jobs))

\* C5: a sweep submits one job per step into a prepared directory of its own:
\* execPscan 10 jobs into 10 distinct directories, execScp 6 jobs into 6.
C5_SweepOneJobPerStep ==
    (CallDone /\ call.builder \in Sweeps) =>
        /\ Len(jobs) = (IF call.builder = "Pscan" THEN steps ELSE kmax + 1 - kmin)
        /\ Cardinality(JobDirs) = Len(jobs)
        /\ \A d \in JobDirs : d \in DOMAIN fs /\ fs[d].kind = "dir"

\* The call violates a precondition of the builders
PreconditionViolated ==
    \/ ~Truthy(call.execpool)
    \/ ~Truthy(call.netfile)
    \/ call.netfile.val \notin NetsOnDisk
    \/ call.asym.type \notin {"NoneType", "bool"}
    \/ call.timeout.val < 0
    \/ ~(call.seed.type = "NoneType" \/ IsInt(call.seed))
    \/ SplitExt(PathName(call.netfile.val)) = <<>>

\* C6: a call with a violated precondition fails and leaves the state as it
\* found it: it never returns, no output path is created or backed up and no
\* job is submitted.
C6_ViolationFatalStateUnchanged ==
    (call.pc # "idle" /\ PreconditionViolated) =>
        /\ call.pc # "done"
        /\ fs = call.fs0
        /\ Len(backups) = call.nb0
        /\ jobs = <<>>

\* The archives made since the running call began
NewBackups == {n \in 1..Len(backups) : n > call.nb0}

\* C15: every job in the queue of the pool has its output directory prepared by
\* the call that submitted it: the directory is the one prepareResDir computes
\* for the task of the job, it exists, it holds nothing but what the job has
\* written since, and whatever it held when the call began lies in an archive
\* made by the call.
C15_JobDirectoryPrepared ==
    \A i \in 1..Len(jobs) :
        LET d == jobs[i].taskpath
        IN  /\ d = TaskPath(call.builder, jobs[i].name[2], call.odir, call.pathid)
            /\ exists(fs, d)
            /\ fs[d].kind = "dir"
            /\ fs[d].files \subseteq {"j.cnl"}
            /\ (exists(call.fs0, d) /\ ~dirempty(call.fs0, d)) =>
                  \E n \in NewBackups :
                      d \in DOMAIN backups[n].items /\ backups[n].items[d] = call.fs0[d]

\* A sweep is through with all its jobs, the stale results of its first point
\* archived, and a job has written
C15_Witness ==
    /\ CallDone
    /\ call.builder = "Pscan"
    /\ Len(jobs) = 11
    /\ exists(call.fs0, jobs[1].taskpath)
    /\ Len(backups) = call.nb0 + 1
    /\ Written # {}

\* C17: no step of a builder (a sweep iteration above all) touches the output
\* directory of a job submitted before: the directory stays in place with its
\* content, and no archive made by the step holds it, whatever results tree
\* the call found.
C17_EarlierSweepDirectoriesKept ==
    [][call' # call =>
          \A d \in JobDirs :
              /\ d \in DOMAIN fs'
              /\ fs'[d] = fs[d]
              /\ \A n \in (Len(backups) + 1)..Len(backups') : d \notin DOMAIN backups'[n].items]_vars

\* Only the third sweep point held stale results: they were archived at the third
\* iteration, after the job of the first point had written its clusters
C17_Witness ==
    /\ call.builder \in Sweeps
    /\ call.pc = "sweep"
    /\ call.fs0 \in StaleTrees
    /\ DOMAIN call.fs0 = LaterPaths
    /\ Len(jobs) = 3
    /\ Len(backups) = call.nb0 + 1
    /\ jobs[3].taskpath \in LaterPaths
    /\ jobs[1].taskpath \in Written

(***************************************************************************)
(* The completion hooks: tidy of execGanxis and postexec of execOslom2, as *)
(* functions from the tree to the set of the outcomes they can have.       *)
(***************************************************************************)
ALGSDIR == <<"algorithms", "/">>

\* workdir, the default of the builder
Workdir(algname) == IF algname = "Ganxis" THEN ALGSDIR \o <<"ganxis", "/">> ELSE ALGSDIR

\* The file names matching the pattern tp*
TpNames == {"tp", "tp1"}

\* shutil.rmtree(path): the directory with everything below it
rmtree(f, path) == [q \in DOMAIN f |-> IF HasPrefix(q, path) THEN Absent ELSE f[q]]

\* os.remove(path)
remove(f, path) == [q \in DOMAIN f |-> IF q = path THEN Absent ELSE f[q]]

\* shutil.move(src, dst) of a directory onto a path that does not exist
MoveDir(f, src, dst) ==
    [q \in DOMAIN f \cup {dst} |-> IF q = dst THEN f[src] ELSE IF q = src THEN Absent ELSE f[q]]

\* shutil.move(fname, taskpath) for the files names of the directory src
MoveFiles(f, src, taskpath, names) ==
    [q \in DOMAIN f |->
        IF q = src THEN Dir(f[q].files \ names)
        ELSE IF q = taskpath THEN Dir(f[q].files \cup names)
        ELSE f[q]]

\* tmp = workdir + 'output/'
TidyTmp(workdir) == workdir \o <<"output", "/">>

\* execGanxis.tidy(job)
tidy(f, workdir) ==
    {[fs |-> IF exists(f, TidyTmp(workdir)) THEN rmtree(f, TidyTmp(workdir)) ELSE f,
      err |-> "ok"]}

\* origResDir = netbasepath + '/' + task + netext + '_oslo_files/'
OrigResDir(task) == NetDir \o task \o <<".nse", "_oslo_files", "/">>

\* outpdire = taskpath + '/extra/'
Outpdire(taskpath) == taskpath \o <<"/", "extra", "/">>

\* The files of origResDir that glob.iglob(origResDir + 'tp*') yields
TpFiles(f, orig) == IF exists(f, orig) THEN f[orig].files \cap TpNames ELSE {}

\* postexec after its loop: the rest of origResDir becomes taskpath/extra/, in
\* place of a former one, and workdir/tp is removed
postexecRest(f, orig, taskpath, workdir) ==
    IF ~exists(f, orig)
    THEN [fs |-> IF exists(f, Outpdire(taskpath)) THEN rmtree(f, Outpdire(taskpath)) ELSE f,
          err |-> "IOError"]
    ELSE [fs |-> remove(MoveDir(IF exists(f, Outpdire(taskpath))
                                THEN rmtree(f, Outpdire(taskpath)) ELSE f,
                                orig, Outpdire(taskpath)),
                        workdir \o <<"tp">>),
          err |-> "ok"]

\* execOslom2.postexec(job): the loop moves the tp* files into taskpath, in the
\* order glob yields them, and raises at the first one that taskpath holds
postexec(f, orig, taskpath, workdir) ==
    IF TpFiles(f, orig) \cap f[taskpath].files = {}
    THEN {postexecRest(IF TpFiles(f, orig) = {} THEN f
                       ELSE MoveFiles(f, orig, taskpath, TpFiles(f, orig)),
                       orig, taskpath, workdir)}
    ELSE {[fs |-> MoveFiles(f, orig, taskpath, S), err |-> "shutil.Error"] :
             S \in SUBSET (TpFiles(f, orig) \ f[taskpath].files)}

\* job.ondone(job)
RunHook(f, job) ==
    IF job.ondone = "tidy"
    THEN tidy(f, Workdir(job.name[1]))
    ELSE postexec(f, OrigResDir(job.name[2]), job.taskpath, Workdir(job.name[1]))

(***************************************************************************)
(* Specification of the execution of the jobs of execGanxis or execOslom2: *)
(* the pool runs the processes of two submitted jobs side by side and      *)
(* calls the hook of a job once its process has ended; a hook can be run   *)
(* again.                                                                  *)
(***************************************************************************)
HookBuilders == {"Ganxis", "Oslom2"}

MaxHookRuns == 2

HookTaskN == <<"n", SEPINST, "1">>

HookTaskM == <<"m">>

\* The arguments of the two calls of the builder
HookCall(odir) == [NoCall EXCEPT !.odir = odir]

\* The tree and the queue after exec<b> on the networks n^1 and m
Submitted(b, odir) ==
    PrepareAndExecute(
        PrepareAndExecute([fs |-> [p \in {} |-> Absent], backups |-> <<>>, clock |-> 0,
                           jobs |-> <<>>],
                          b, HookTaskN, <<b>>, HookCall(odir), TRUE),
        b, HookTaskM, <<b>>, HookCall(odir), TRUE)

Queued == [st |-> "queued", out |-> FALSE, hooks |-> 0]

HookInit ==
    /\ pybin = NotImported
    /\ \E b \in HookBuilders, odir \in BOOLEAN :
          /\ fs = Submitted(b, odir).fs
          /\ jobs = Submitted(b, odir).jobs
    /\ pool = [i \in 1..Len(jobs) |-> Queued]
    /\ backups = <<>>
    /\ clock = 0
    /\ last = NoOp
    /\ call = NoCall
    /\ logs = <<>>
    /\ agg = AggIdle
    /\ reports = NoReports
    /\ reports0 = NoReports
    /\ aggruns = NoRuns

\* The path p is v in the tree
Put(f, p, v) == [q \in DOMAIN f \cup {p} |-> IF q = p THEN v ELSE f[q]]

\* What the running process of the job keeps in the working directory: GANXiS
\* its ./output/, oslom2 its ./tp
InUse(job) ==
    IF job.ondone = "tidy"
    THEN TidyTmp(Workdir(job.name[1]))
    ELSE Workdir(job.name[1]) \o <<"tp">>

\* The pool starts the process of job i in its working directory
JobStart(i) ==
    /\ pool[i].st = "queued"
    /\ pool' = [pool EXCEPT ![i].st = "running"]
    /\ fs' = IF exists(fs, InUse(jobs[i])) THEN fs
             ELSE Put(fs, InUse(jobs[i]),
                      IF jobs[i].ondone = "tidy" THEN EmptyDir ELSE RegFile)
    /\ UNCHANGED <<backups, clock, last, call, jobs>>
    /\ UNCHANGED <<aggvars, pybin>>

\* The output of the process of job i: GANXiS writes its clusters into the
\* task path, oslom2 its files into the directory beside the network
Output(f, job) ==
    IF job.ondone = "tidy"
    THEN Put(f, job.taskpath, Dir(f[job.taskpath].files \cup {"j.cnl"}))
    ELSE Put(f, OrigResDir(job.name[2]), Dir({"tp", "tp1", "x.dat"}))

\* The process of job i ends, with its output (ok) or before it has made any
JobEnd(i, ok) ==
    /\ pool[i].st = "running"
    /\ pool' = [pool EXCEPT ![i].st = "ended", ![i].out = ok]
    /\ fs' = IF ok THEN Output(fs, jobs[i]) ELSE fs
    /\ UNCHANGED <<backups, clock, last, call, jobs>>
    /\ UNCHANGED <<aggvars, pybin>>

\* The hook of job i finds none of what it is to move or to delete
InputsAbsent(f, job) ==
    IF job.ondone = "tidy"
    THEN ~exists(f, TidyTmp(Workdir(job.name[1])))
    ELSE ~exists(f, OrigResDir(job.name[2])) /\ ~exists(f, Workdir(job.name[1]) \o <<"tp">>)

\* The pool (or a retry) calls the hook of the ended job i
Hook(i) ==
    /\ pool[i].st = "ended"
    /\ pool[i].hooks < MaxHookRuns
    /\ \E r \in RunHook(fs, jobs[i]) :
          /\ fs' = r.fs
          /\ last' = [op |-> "hook", path |-> jobs[i].taskpath, fs0 |-> fs, nb0 |-> i,
                      err |-> r.err,
                      again |-> \/ InputsAbsent(fs, jobs[i])
                                \/ (last.op = "hook" /\ last.nb0 = i /\ last.err = "ok")]
    /\ pool' = [pool EXCEPT ![i].hooks = @ + 1]
    /\ UNCHANGED <<backups, clock, call, jobs>>
    /\ UNCHANGED <<aggvars, pybin>>

HookNext ==
    \/ \E i \in 1..Len(jobs) : JobStart(i)
    \/ \E i \in 1..Len(jobs), ok \in BOOLEAN : JobEnd(i, ok)
    \/ \E i \in 1..Len(jobs) : Hook(i)

HookSpec == HookInit /\ [][HookNext]_vars

(***************************************************************************)
(* Properties of the completion hooks.                                     *)
(***************************************************************************)
\* C18: a hook run when what it is to move or delete is absent, or run again
\* right after a run of it that raised nothing, raises nothing and leaves the
\* tree as it found it, the output in the task path included.
C18_HookIdempotent ==
    (last.op = "hook" /\ last.again) =>
        /\ last.err = "ok"
        /\ fs = last.fs0

\* C19: the hook of a job leaves alone what the running process of another job
\* of the builder keeps in the working directory.
C19_HookSparesRunningJobs ==
    [][\A i \in 1..Len(jobs) :
          (pool'[i].hooks > pool[i].hooks) =>
              \A j \in 1..Len(jobs) :
                  (j # i /\ pool[j].st = "running" /\ exists(fs, InUse(jobs[j]))) =>
                      fs'[InUse(jobs[j])] = fs[InUse(jobs[j])]]_vars

(***************************************************************************)
(* Specification of the interpreter selection: the module is imported on a *)
(* system under an interpreter, the class body of PyBin runs once, and     *)
(* bestof is called any number of times.                                   *)
(***************************************************************************)
PyBinInit ==
    /\ \E sys \in Systems, exec \in PyExecs :
          pybin = [NotImported EXCEPT !.pc = "import", !.sys = sys, !.exec = exec]
    /\ fs = [p \in {ParentPath} |-> EmptyDir]
    /\ backups = <<>>
    /\ clock = 1
    /\ last = NoOp
    /\ logs = <<>>
    /\ agg = AggIdle
    /\ reports = NoReports
    /\ reports0 = NoReports
    /\ aggruns = NoRuns
    /\ call = NoCall
    /\ jobs = <<>>
    /\ pool = <<>>

\* The class body of PyBin runs at the import of the module
PyBinLoad ==
    /\ pybin.pc = "import"
    /\ pybin' = [pybin EXCEPT !.pc = "ready", !.attrs = Probe(pybin.sys)]
    /\ UNCHANGED <<pathvars, aggvars, buildvars>>

\* A call of PyBin.bestof
PyBinBestof(pypy, v3) ==
    /\ pybin.pc \in {"ready", "called"}
    /\ pybin' = [pybin EXCEPT !.pc = "called", !.pypy = pypy, !.v3 = v3,
                              !.ret = bestof(pybin.attrs, pybin.exec, pypy, v3)]
    /\ UNCHANGED <<pathvars, aggvars, buildvars>>

PyBinNext ==
    \/ PyBinLoad
    \/ \E pypy \in BOOLEAN, v3 \in BOOLEAN : PyBinBestof(pypy, v3)

PyBinSpec == PyBinInit /\ [][PyBinNext]_vars

(***************************************************************************)
(* Properties of PyBin.bestof.                                             *)
(***************************************************************************)
\* bestof(pypy, v3) asks for the runtime r
Requested(r, pypy, v3) ==
    CASE r = "pypy3" -> pypy /\ v3
      [] r = "pypy" -> pypy
      [] r = "python3" -> v3

\* The runtime of the highest priority in the set have of runtimes
Top(have) == Runtimes[SetMin({i \in 1..Len(Runtimes) : Runtimes[i] \in have})]

\* The interpreter ret is the runtime r: its command, or the running
\* interpreter where that is an r
IsRuntime(ret, r) ==
    \/ ret = <<Command(r)>>
    \/ ret = pybin.exec /\ Basename(pybin.exec) = Command(r)

\* The last call of bestof returned the most preferred runtime among those
\* asked for of the set have, or, none of them asked for, the running
\* interpreter or 'python'
MostPreferredOf(have) ==
    LET want == {r \in have : Requested(r, pybin.pypy, pybin.v3)}
    IN  IF want # {} THEN IsRuntime(pybin.ret, Top(want))
        ELSE pybin.ret \in {pybin.exec, <<Python>>}

\* The runtimes installed on the system: their command runs and exits with 0
Installed == {r \in DOMAIN pybin.sys : pybin.sys[r] = "ok"}

\* The runtimes the class body found
Probed == {r \in DOMAIN pybin.sys : pybin.attrs[r] # None}

\* After a call of bestof the result is the most preferred of the runtimes the
\* class body found (pypy3 > pypy > python3), or the default
BestofMostPreferredProbed ==
    pybin.pc = "called" => MostPreferredOf(Probed)

\* C23: after a call of bestof(pypy, v3) the result is the runtime of the
\* highest priority (pypy3 > pypy > python3) among those both asked for and
\* installed on the system, and, where none of them is installed, the running
\* interpreter or 'python'.
C23_BestofMostPreferredInstalled ==
    pybin.pc = "called" => MostPreferredOf(Installed)

====
